---------------------------- MODULE Spec2Model ----------------------------
(***************************************************************************)
(* Model of the Encoding type of src/encoding.go and of its operations     *)
(* Truncate, MergeWith and Pad.                                            *)
(*                                                                         *)
(* A Go slice is a header (backing array, offset, length) over a backing   *)
(* array that several headers may share, so the model keeps an explicit    *)
(* heap of backing arrays: heap[a] is backing array a, and its length is   *)
(* the array's capacity.  An Encoding is a record of seven slice headers   *)
(* plus the Overflowing list.  Every operation is computed on the heap in  *)
(* the order of the statements of the source, so that an append that fits  *)
(* the capacity writes into storage other headers may still look at.       *)
(***************************************************************************)
EXTENDS Integers, Sequences, FiniteSets, TLC

\* ------------------------------------------------------------------ bounds

\* Largest number of tokens of an Encoding handed in by the caller.
MaxLen == 4
\* Number of calls made on the Encodings in one behaviour.
MaxSteps == 2
\* Largest maxLen handed to Truncate.
MaxTruncLen == 3
\* Largest stride handed to Truncate.
MaxStride == 1
\* Largest targetLength handed to Pad.
MaxTarget == 3
\* Largest word index handed to Word2Tokens.
MaxWord == 2

\* Spare capacity a newly allocated backing array may have (append may
\* allocate more than it needs; make allocates exactly).
Slacks == {0, 1}
\* The caller's variables holding an Encoding.
Regs == {1, 2}
\* Pad arguments.
PadIds == {90}
PadTypeIds == {91}
PadTokens == {"[PAD]"}

\* ------------------------------------------------------------- slice heap

Fields == <<"Ids", "TypeIds", "Tokens", "Offsets", "SpecialTokenMask",
            "AttentionMask", "Words">>
FieldSet == {Fields[i] : i \in 1..Len(Fields)}

\* The element of a one-element set (used to name an intermediate result).
Only(S) == CHOOSE x \in S : TRUE

\* A sequence given as a function on 1..n, as a tuple.
Tup(f) == f \o <<>>

\* n times x.
Rep(n, x) == Tup([i \in 1..n |-> x])

\* The PaddingDirection constants.
Left == "Left"
Right == "Right"

\* An Offsets value.
Offsets(start, end) == [Start |-> start, End |-> end]

\* The zero value of the element type of a field.
ZeroOf(f) ==
  IF f = "Tokens" THEN ""
  ELSE IF f = "Offsets" THEN Offsets(0, 0)
  ELSE 0

\* The nil slice.
NilSlice == [arr |-> 0, off |-> 0, len |-> 0]

\* cap(s)
Cap(h, s) == IF s.arr = 0 THEN 0 ELSE Len(h[s.arr]) - s.off

\* s[i], i counted from 0 as in Go.
At(h, s, i) == h[s.arr][s.off + i + 1]

\* The elements a slice header shows.
Read(h, s) ==
  IF s.len = 0 THEN <<>> ELSE SubSeq(h[s.arr], s.off + 1, s.off + s.len)

\* s[lo:hi]; the caller checks 0 <= lo <= hi <= cap(s).
SliceOf(s, lo, hi) == [arr |-> s.arr, off |-> s.off + lo, len |-> hi - lo]

\* make([]T, n) filled with xs: a new backing array of exactly Len(xs).
Make(h, xs) ==
  [h |-> Append(h, xs), s |-> [arr |-> Len(h) + 1, off |-> 0, len |-> Len(xs)]]

\* append(s, xs...): in place when the capacity allows, otherwise into a
\* new backing array with `slack` spare elements.
AppendSlice(h, s, xs, slack, zero) ==
  IF s.len + Len(xs) <= Cap(h, s)
  THEN [h |-> IF Len(xs) = 0 THEN h
              ELSE [h EXCEPT ![s.arr] =
                      SubSeq(@, 1, s.off + s.len) \o xs
                        \o SubSeq(@, s.off + s.len + Len(xs) + 1, Len(@))],
        s |-> [s EXCEPT !.len = @ + Len(xs)]]
  ELSE [h |-> Append(h, Read(h, s) \o xs \o Rep(slack, zero)),
        s |-> [arr |-> Len(h) + 1, off |-> 0, len |-> s.len + Len(xs)]]

\* ---------------------------------------------------------------- Encoding

\* The zero value of Encoding (all slices nil).
ZeroEncoding ==
  [Ids |-> NilSlice, TypeIds |-> NilSlice, Tokens |-> NilSlice,
   Offsets |-> NilSlice, SpecialTokenMask |-> NilSlice,
   AttentionMask |-> NilSlice, Words |-> NilSlice, Overflowing |-> <<>>]

\* What an Encoding holds: the elements of its arrays and, recursively, of
\* its overflow entries.
RECURSIVE View(_, _)
View(h, e) ==
  [Ids |-> Read(h, e.Ids), TypeIds |-> Read(h, e.TypeIds),
   Tokens |-> Read(h, e.Tokens), Offsets |-> Read(h, e.Offsets),
   SpecialTokenMask |-> Read(h, e.SpecialTokenMask),
   AttentionMask |-> Read(h, e.AttentionMask), Words |-> Read(h, e.Words),
   Overflowing |->
     Tup([k \in 1..Len(e.Overflowing) |-> View(h, e.Overflowing[k])])]

ZeroView == View(<<>>, ZeroEncoding)

\* Len()
EncLen(e) == e.Ids.len

\* The arrays the caller hands to NewEncoding for variable r: n tokens,
\* two tokens per word, token i covering characters [i-1, i).
InputArray(f, r, n) ==
  Tup([i \in 1..n |->
         CASE f = "Ids" -> 10 * r + i
           [] f = "TypeIds" -> r - 1
           [] f = "Tokens" -> "t" \o ToString(10 * r + i)
           [] f = "Offsets" -> Offsets(i - 1, i)
           [] f = "SpecialTokenMask" -> 0
           [] f = "AttentionMask" -> 1
           [] f = "Words" -> (i - 1) \div 2])

\* The backing arrays the caller allocates for its Regs: those of variable
\* r are arrays 7*(r-1)+1 .. 7*r, with n[r] elements and c[r] spare ones.
InputHeap(n, c) ==
  Tup([a \in 1..(7 * Cardinality(Regs)) |->
         InputArray(Fields[((a - 1) % 7) + 1], ((a - 1) \div 7) + 1,
                    n[((a - 1) \div 7) + 1])
           \o Rep(c[((a - 1) \div 7) + 1], ZeroOf(Fields[((a - 1) % 7) + 1]))])

\* NewEncoding(ids, typeIds, tokens, offsets, specialTokenMask,
\* attentionMask, overflowing, words) for variable r with n tokens.
NewEncoding(r, n) ==
  [Ids |-> [arr |-> 7 * (r - 1) + 1, off |-> 0, len |-> n],
   TypeIds |-> [arr |-> 7 * (r - 1) + 2, off |-> 0, len |-> n],
   Tokens |-> [arr |-> 7 * (r - 1) + 3, off |-> 0, len |-> n],
   Offsets |-> [arr |-> 7 * (r - 1) + 4, off |-> 0, len |-> n],
   SpecialTokenMask |-> [arr |-> 7 * (r - 1) + 5, off |-> 0, len |-> n],
   AttentionMask |-> [arr |-> 7 * (r - 1) + 6, off |-> 0, len |-> n],
   Words |-> [arr |-> 7 * (r - 1) + 7, off |-> 0, len |-> n],
   Overflowing |-> <<>>]

\* ---------------------------------------------------------------- Truncate

\* The argument check with > for >=.
TruncateInvalidStrict(maxLen, stride) == stride > maxLen \/ maxLen = 0

\* The argument check of Truncate.
TruncateInvalid(maxLen, stride) == stride >= maxLen \/ maxLen = 0

\* getCurrentPart taking the first len - stride elements of previous
\* instead of the last stride ones.
getCurrentPartHead(h, previous, current, size, idx, stride, slack, zero) ==
  IF idx * size > current.len \/ stride > previous.len
  THEN [h |-> h, s |-> NilSlice, ok |-> FALSE]
  ELSE Only({[h |-> r.h, s |-> r.s, ok |-> TRUE] :
             r \in {AppendSlice(
                      h,
                      SliceOf(previous, 0, previous.len - stride),
                      Read(h, IF (idx + 1) * size > current.len
                              THEN SliceOf(current, idx * size, current.len)
                              ELSE SliceOf(current, idx * size,
                                           (idx + 1) * size)),
                      slack, zero)}})

\* getCurrentPart(previous, current, size, idx, stride): the last `stride`
\* elements of previous followed by part idx of current, built by append
\* on the tail of previous.  ok is FALSE when a slice expression is out of
\* range.
getCurrentPart(h, previous, current, size, idx, stride, slack, zero) ==
  IF idx * size > current.len \/ stride > previous.len
  THEN [h |-> h, s |-> NilSlice, ok |-> FALSE]
  ELSE Only({[h |-> r.h, s |-> r.s, ok |-> TRUE] :
             r \in {AppendSlice(
                      h,
                      SliceOf(previous, previous.len - stride, previous.len),
                      Read(h, IF (idx + 1) * size > current.len
                              THEN SliceOf(current, idx * size, current.len)
                              ELSE SliceOf(current, idx * size,
                                           (idx + 1) * size)),
                      slack, zero)}})

\* The fields of one overflow Encoding, evaluated in the order of the
\* struct literal; acc is the Encoding built so far.
RECURSIVE TruncatePart(_, _, _, _, _, _, _, _, _)
TruncatePart(h, prev, o, partSize, partId, stride, slack, k, acc) ==
  IF k > Len(Fields) THEN [h |-> h, e |-> acc, ok |-> TRUE]
  ELSE Only({IF ~r.ok THEN [h |-> h, e |-> acc, ok |-> FALSE]
             ELSE TruncatePart(r.h, prev, o, partSize, partId, stride, slack,
                               k + 1, [acc EXCEPT ![Fields[k]] = r.s]) :
             r \in {getCurrentPart(h, prev[Fields[k]], o[Fields[k]], partSize,
                                   partId, stride, slack, ZeroOf(Fields[k]))}})

\* The loop of Truncate that cuts the overflowing part into Encodings.
RECURSIVE TruncateLoop(_, _, _, _, _, _, _, _)
TruncateLoop(h, prevEncoding, o, partSize, partId, stride, slack, overflowing) ==
  IF ~(partSize * partId < o.Ids.len)
  THEN [h |-> h, overflowing |-> overflowing, ok |-> TRUE]
  ELSE Only({IF ~r.ok THEN [h |-> h, overflowing |-> overflowing, ok |-> FALSE]
             ELSE TruncateLoop(r.h, r.e, o, partSize, partId + 1, stride,
                               slack, Append(overflowing, r.e)) :
             r \in {TruncatePart(h, prevEncoding, o, partSize, partId, stride,
                                 slack, 1, ZeroEncoding)}})

\* e after its arrays are cut to [0, maxLen).
TruncateKept(e, maxLen) ==
  [Ids |-> SliceOf(e.Ids, 0, maxLen),
   TypeIds |-> SliceOf(e.TypeIds, 0, maxLen),
   Tokens |-> SliceOf(e.Tokens, 0, maxLen),
   Offsets |-> SliceOf(e.Offsets, 0, maxLen),
   SpecialTokenMask |-> SliceOf(e.SpecialTokenMask, 0, maxLen),
   AttentionMask |-> SliceOf(e.AttentionMask, 0, maxLen),
   Words |-> SliceOf(e.Words, 0, maxLen),
   Overflowing |-> e.Overflowing]

\* The overflowing part [maxLen, len) of every array (oIds, oTypeIds, ...).
TruncateRest(e, maxLen) ==
  [Ids |-> SliceOf(e.Ids, maxLen, e.Ids.len),
   TypeIds |-> SliceOf(e.TypeIds, maxLen, e.TypeIds.len),
   Tokens |-> SliceOf(e.Tokens, maxLen, e.Tokens.len),
   Offsets |-> SliceOf(e.Offsets, maxLen, e.Offsets.len),
   SpecialTokenMask |-> SliceOf(e.SpecialTokenMask, maxLen,
                                e.SpecialTokenMask.len),
   AttentionMask |-> SliceOf(e.AttentionMask, maxLen, e.AttentionMask.len),
   Words |-> SliceOf(e.Words, maxLen, e.Words.len)]

\* Truncate(maxLen, stride).  outcome: "ok", "error" (the returned err),
\* "panic" (a slice expression out of range) or "diverge" (the loop never
\* ends, which needs partSize = 0).
Truncate(h, e, maxLen, stride, slack) ==
  IF TruncateInvalid(maxLen, stride)
  THEN [h |-> h, e |-> ZeroEncoding, outcome |-> "error"]
  ELSE IF maxLen >= EncLen(e)
  THEN [h |-> h, e |-> e, outcome |-> "ok"]
  ELSE IF \E f \in FieldSet : e[f].len < maxLen
  THEN [h |-> h, e |-> ZeroEncoding, outcome |-> "panic"]
  ELSE IF maxLen = stride
  THEN [h |-> h, e |-> ZeroEncoding, outcome |-> "diverge"]
  ELSE Only({IF ~r.ok THEN [h |-> h, e |-> ZeroEncoding, outcome |-> "panic"]
             ELSE [h |-> r.h,
                   e |-> [TruncateKept(e, maxLen)
                            EXCEPT !.Overflowing = r.overflowing],
                   outcome |-> "ok"] :
             r \in {TruncateLoop(h, TruncateKept(e, maxLen),
                                 TruncateRest(e, maxLen), maxLen - stride, 0,
                                 stride, slack, <<>>)}})

\* --------------------------------------------------------------- MergeWith

Max(a, b) == IF a > b THEN a ELSE b

\* A call in progress: the heap and the receiver's copy e of the Encoding.
\* e.F = append(e.F, pair.F...)
AppendFrom(st, pair, f, slack) ==
  Only({[h |-> r.h, e |-> [st.e EXCEPT ![f] = r.s]] :
        r \in {AppendSlice(st.h, st.e[f], Read(st.h, pair[f]), slack, ZeroOf(f))}})

\* e.F = append(e.F, x)
AppendOne(st, f, x, slack) ==
  Only({[h |-> r.h, e |-> [st.e EXCEPT ![f] = r.s]] :
        r \in {AppendSlice(st.h, st.e[f], <<x>>, slack, ZeroOf(f))}})

\* The largest End among the offsets of e (0 when it has none).
RECURSIVE StartingOffset(_, _, _, _)
StartingOffset(h, s, idx, acc) ==
  IF idx >= s.len THEN acc
  ELSE StartingOffset(h, s, idx + 1, Max(acc, At(h, s, idx).End))

\* The loop that appends pair's offsets, shifted, one at a time; each
\* element of pair.Offsets is read when its turn comes.
RECURSIVE MergeOffsets(_, _, _, _, _)
MergeOffsets(st, pair, startingOffset, idx, slack) ==
  IF idx >= pair.Offsets.len THEN st
  ELSE Only({MergeOffsets(st1, pair, startingOffset, idx + 1, slack) :
             st1 \in {AppendOne(
                        st, "Offsets",
                        Offsets(At(st.h, pair.Offsets, idx).Start + startingOffset,
                                At(st.h, pair.Offsets, idx).End + startingOffset),
                        slack)}})

\* The offset added to pair's word indexes.
WordOffset(e) == e.Words.len

\* The loop that appends pair's word indexes plus wOffset, one at a time
\* (uint32 sums; the indexes of the model stay far below 2^32).
RECURSIVE MergeWords(_, _, _, _, _)
MergeWords(st, pair, wOffset, idx, slack) ==
  IF idx >= pair.Words.len THEN st
  ELSE Only({MergeWords(st1, pair, wOffset, idx + 1, slack) :
             st1 \in {AppendOne(st, "Words",
                               At(st.h, pair.Words, idx) + wOffset, slack)}})

\* Steps 3 and 4 of MergeWith, array k onwards: the arrays of e followed by
\* those of pair.  The arrays come in the order of Fields.
RECURSIVE MergeArrays(_, _, _, _)
MergeArrays(st, pair, k, slack) ==
  IF k > Len(Fields) THEN st
  ELSE Only({MergeArrays(st1, pair, k + 1, slack) :
             st1 \in {IF Fields[k] = "Offsets"
                      THEN MergeOffsets(st, pair,
                                        StartingOffset(st.h, st.e.Offsets, 0, 0),
                                        0, slack)
                      ELSE IF Fields[k] = "Words"
                      THEN MergeWords(st, pair, WordOffset(st.e), 0, slack)
                      ELSE AppendFrom(st, pair, Fields[k], slack)}})

RECURSIVE MergeWith(_, _, _, _)

\* for _, otherO := range pair.Overflowing: a copy of x is merged with
\* otherO, the result of the call is dropped and the copy is appended.
RECURSIVE MergeEachOther(_, _, _, _, _, _)
MergeEachOther(h, x, pair, m, overflowings, slack) ==
  IF m > Len(pair.Overflowing) THEN [h |-> h, overflowings |-> overflowings]
  ELSE Only({MergeEachOther(r.h, x, pair, m + 1, Append(overflowings, x), slack) :
             r \in {MergeWith(h, x, pair.Overflowing[m], slack)}})

\* Step 1 of MergeWith: every overflowing of e with pair (1.1) and with
\* every overflowing of pair (1.2).
RECURSIVE MergeCurrentOverflowing(_, _, _, _, _, _)
MergeCurrentOverflowing(h, e, pair, k, overflowings, slack) ==
  IF k > Len(e.Overflowing) THEN [h |-> h, overflowings |-> overflowings]
  ELSE Only({MergeCurrentOverflowing(r2.h, e, pair, k + 1, r2.overflowings, slack) :
             r2 \in {Only({MergeEachOther(
                             r1.h, e.Overflowing[k], pair, 1,
                             Append(overflowings, e.Overflowing[k]), slack) :
                           r1 \in {MergeWith(h, e.Overflowing[k], pair, slack)}})}})

\* Step 1 of MergeWith alone, without the loop of step 2.
MergeOverflowingsNoPairLoop(h, e, pair, slack) ==
  MergeCurrentOverflowing(h, e, pair, 1, <<>>, slack)

\* Steps 1 and 2 of MergeWith: the overflowing list of the result.
MergeOverflowings(h, e, pair, slack) ==
  Only({MergeEachOther(r.h, e, pair, 1, r.overflowings, slack) :
        r \in {MergeCurrentOverflowing(h, e, pair, 1, <<>>, slack)}})

\* MergeWith(pair)
MergeWith(h, e, pair, slack) ==
  Only({Only({[h |-> st.h, e |-> [st.e EXCEPT !.Overflowing = r.overflowings]] :
              st \in {MergeArrays([h |-> r.h, e |-> e], pair, 1, slack)}}) :
        r \in {MergeOverflowings(h, e, pair, slack)}})

\* --------------------------------------------------------------------- Pad

\* The filler of a field.
Filler(f, padId, padTypeId, padToken) ==
  CASE f = "Ids" -> padId
    [] f = "TypeIds" -> padTypeId
    [] f = "Tokens" -> padToken
    [] f = "SpecialTokenMask" -> 1
    [] f = "AttentionMask" -> 0
    [] f = "Offsets" -> Offsets(0, 0)
    [] f = "Words" -> 0

\* The arrays in the order both cases of Pad go through them.
PadOrder == <<"Ids", "TypeIds", "Tokens", "SpecialTokenMask",
                  "AttentionMask", "Offsets", "Words">>

\* One field of the Left case: newF := make([]T, padLength), filled, then
\* e.F = append(newF, src...).
PadLeftField(st, f, fill, padLength, src, slack) ==
  Only({[h |-> r.h, e |-> [st.e EXCEPT ![f] = r.s]] :
        r \in {Only({AppendSlice(m.h, m.s, src, slack, ZeroOf(f)) :
                     m \in {Make(st.h, Rep(padLength, fill))}})}})

\* What the Left case appends after the filler of field f: e.F, except
\* that TypeIds get e.Ids (which by then are the new Ids).
PadLeftSource(st, f) ==
  IF f = "TypeIds" THEN Read(st.h, st.e.Ids) ELSE Read(st.h, st.e[f])

\* The Left case, array k of PadOrder onwards.
RECURSIVE PadLeft(_, _, _, _, _, _, _)
PadLeft(st, k, padLength, padId, padTypeId, padToken, slack) ==
  IF k > Len(PadOrder) THEN st
  ELSE Only({PadLeft(st1, k + 1, padLength, padId, padTypeId, padToken, slack) :
             st1 \in {PadLeftField(
                        st, PadOrder[k],
                        Filler(PadOrder[k], padId, padTypeId, padToken),
                        padLength, PadLeftSource(st, PadOrder[k]), slack)}})

\* One round of the loop of the Right case: one filler appended to every
\* array, field k onwards.
RECURSIVE PadRightOnce(_, _, _, _, _, _)
PadRightOnce(st, k, padId, padTypeId, padToken, slack) ==
  IF k > Len(PadOrder) THEN st
  ELSE Only({PadRightOnce(st1, k + 1, padId, padTypeId, padToken, slack) :
             st1 \in {AppendOne(st, PadOrder[k],
                               Filler(PadOrder[k], padId, padTypeId, padToken),
                               slack)}})

\* The Right case: padLength rounds.
RECURSIVE PadRight(_, _, _, _, _, _)
PadRight(st, padLength, padId, padTypeId, padToken, slack) ==
  IF padLength <= 0 THEN st
  ELSE Only({PadRight(st1, padLength - 1, padId, padTypeId, padToken, slack) :
             st1 \in {PadRightOnce(st, 1, padId, padTypeId, padToken, slack)}})

\* What Pad returns when the Encoding is long enough: the bare return of
\* the named result retVal, which nothing has assigned.
PadNothingToDo(e) == ZeroEncoding

\* In the Left case the loop that fills newOffsets (padLength elements)
\* runs i over len(newIds) = padLength + len(e.Ids).
PadLeftOutOfRange(e, padLength) == padLength + EncLen(e) > padLength

RECURSIVE Pad(_, _, _, _, _, _, _, _)

\* Step 1 of Pad: Pad called on a copy of every overflowing, the results
\* dropped.  The heap keeps what those calls wrote.
RECURSIVE PadOverflowing(_, _, _, _, _, _, _, _, _)
PadOverflowing(h, e, k, targetLength, padId, padTypeId, padToken, direction, slack) ==
  IF k > Len(e.Overflowing) THEN [h |-> h, outcome |-> "ok"]
  ELSE Only({IF r.outcome = "panic" THEN [h |-> r.h, outcome |-> "panic"]
             ELSE PadOverflowing(r.h, e, k + 1, targetLength, padId, padTypeId,
                                 padToken, direction, slack) :
             r \in {Pad(h, e.Overflowing[k], targetLength, padId, padTypeId,
                        padToken, direction, slack)}})

\* Pad(targetLength, padId, padTypeId, padToken, direction).  outcome is
\* "ok" or "panic" (index out of range).
Pad(h, e, targetLength, padId, padTypeId, padToken, direction, slack) ==
  Only({IF r.outcome = "panic"
        THEN [h |-> r.h, e |-> ZeroEncoding, outcome |-> "panic"]
        ELSE IF EncLen(e) >= targetLength
        THEN [h |-> r.h, e |-> PadNothingToDo(e), outcome |-> "ok"]
        ELSE IF direction = Left
        THEN IF PadLeftOutOfRange(e, targetLength - EncLen(e))
             THEN [h |-> r.h, e |-> ZeroEncoding, outcome |-> "panic"]
             ELSE Only({[h |-> st.h, e |-> st.e, outcome |-> "ok"] :
                        st \in {PadLeft([h |-> r.h, e |-> e], 1,
                                        targetLength - EncLen(e), padId,
                                        padTypeId, padToken, slack)}})
        ELSE Only({[h |-> st.h, e |-> st.e, outcome |-> "ok"] :
                   st \in {PadRight([h |-> r.h, e |-> e],
                                    targetLength - EncLen(e), padId, padTypeId,
                                    padToken, slack)}}) :
        r \in {PadOverflowing(h, e, 1, targetLength, padId, padTypeId, padToken,
                              direction, slack)}})

\* --------------------------------------------------------------- accessors

\* TakeOverflowing(): o is the list returned, e the receiver, which is the
\* method's own copy of the Encoding (value receiver), after the call.
TakeOverflowing(e) ==
  [o |-> e.Overflowing, e |-> [e EXCEPT !.Overflowing = <<>>]]

\* The nil pointer of Word2Tokens' start and end.
Nil == -1

\* The words of e equal to word, in order (the local slice words).
RECURSIVE Word2TokensFilter(_, _, _, _, _)
Word2TokensFilter(h, s, word, idx, acc) ==
  IF idx >= s.len THEN acc
  ELSE Word2TokensFilter(h, s, word, idx + 1,
                         IF At(h, s, idx) = word
                         THEN Append(acc, At(h, s, idx)) ELSE acc)

\* The loop of Word2Tokens over the indexes i of the n filtered words.
\* start = &i points at the loop variable: with one variable per iteration
\* (perIteration) *start keeps the i it was taken at, with one variable for
\* the whole loop *start is the current i.  end points at a fresh tmp.
RECURSIVE Word2TokensLoop(_, _, _, _, _)
Word2TokensLoop(n, i, start, end, perIteration) ==
  IF i >= n
  THEN [start |-> IF start = Nil \/ perIteration THEN start ELSE n - 1,
        end |-> end]
  ELSE Word2TokensLoop(
         n, i + 1,
         IF start = Nil \/ i < (IF perIteration THEN start ELSE i)
         THEN i ELSE start,
         IF end = Nil \/ i >= end THEN i + 1 ELSE end,
         perIteration)

\* Word2Tokens(word) -> (startTok, endTok, ok)
Word2Tokens(h, e, word, perIteration) ==
  Only({IF r.start # Nil /\ r.end # Nil
        THEN [v1 |-> r.start, v2 |-> r.end, ok |-> TRUE]
        ELSE [v1 |-> 0, v2 |-> 0, ok |-> FALSE] :
        r \in {Word2TokensLoop(
                 Len(Word2TokensFilter(h, e.Words, word, 0, <<>>)), 0, Nil, Nil,
                 perIteration)}})

\* Token2Chars(tokenIdx) -> (retVal, ok); outcome "panic" is an index out
\* of range.  v1 and v2 are retVal.Start and retVal.End.
Token2Chars(h, e, tokenIdx) ==
  IF tokenIdx < 0 \/ tokenIdx > e.Offsets.len
  THEN [v1 |-> 0, v2 |-> 0, ok |-> FALSE, outcome |-> "ok"]
  ELSE IF tokenIdx >= e.Offsets.len
  THEN [v1 |-> 0, v2 |-> 0, ok |-> FALSE, outcome |-> "panic"]
  ELSE [v1 |-> At(h, e.Offsets, tokenIdx).Start,
        v2 |-> At(h, e.Offsets, tokenIdx).End, ok |-> TRUE, outcome |-> "ok"]

\* w == uint32(tokenIdx) for a word index w below 2^31: the conversion
\* leaves tokenIdx >= 0 as it is and turns tokenIdx < 0 into
\* 2^32 + tokenIdx (compared here with 2^31 taken off both sides).
Uint32Eq(w, tokenIdx) ==
  IF tokenIdx >= 0 THEN w = tokenIdx
  ELSE (w - 2147483647) - 1 = (tokenIdx + 2147483647) + 1

\* Token2Word(tokenIdx) -> (retVal, ok): the search through e.Words from
\* position idx on.
RECURSIVE Token2WordFrom(_, _, _, _)
Token2WordFrom(h, e, tokenIdx, idx) ==
  IF idx >= e.Words.len THEN [v1 |-> 0, v2 |-> 0, ok |-> FALSE]
  ELSE IF Uint32Eq(At(h, e.Words, idx), tokenIdx)
  THEN [v1 |-> At(h, e.Words, idx), v2 |-> 0, ok |-> TRUE]
  ELSE Token2WordFrom(h, e, tokenIdx, idx + 1)

Token2Word(h, e, tokenIdx) == Token2WordFrom(h, e, tokenIdx, 0)

\* Char2Token(pos) -> (retVal, ok): the search through e.Offsets from
\* position idx on.
RECURSIVE Char2TokenFrom(_, _, _, _)
Char2TokenFrom(h, e, pos, idx) ==
  IF idx >= e.Offsets.len THEN [v1 |-> -1, v2 |-> 0, ok |-> FALSE]
  ELSE IF pos >= At(h, e.Offsets, idx).Start /\ pos < At(h, e.Offsets, idx).End
  THEN [v1 |-> idx, v2 |-> 0, ok |-> TRUE]
  ELSE Char2TokenFrom(h, e, pos, idx + 1)

Char2Token(h, e, pos) == Char2TokenFrom(h, e, pos, 0)

\* Char2Word(pos) -> (retVal, ok)
Char2Word(h, e, pos) ==
  IF Char2Token(h, e, pos).ok
  THEN Token2Word(h, e, Char2Token(h, e, pos).v1)
  ELSE [v1 |-> 0, v2 |-> 0, ok |-> FALSE]

\* ------------------------------------------------------------------- state

VARIABLES
  heap,    \* the backing arrays
  regs,    \* regs[r]: the Encoding held by the caller's variable r
  growth,  \* spare capacity the allocator gives a grown or input array
  last,    \* the last call: its arguments, what its inputs held, its result
  steps    \* number of calls made

vars == <<heap, regs, growth, last, steps>>

NoCall ==
  [op |-> "New", outcome |-> "ok", recv |-> 0, dest |-> 0,
   maxLen |-> 0, stride |-> 0, target |-> 0, dir |-> Right,
   inV |-> ZeroView, pairV |-> ZeroView, outV |-> ZeroView,
   recvAfter |-> ZeroView, arg |-> 0, taken |-> <<>>,
   ret |-> [v1 |-> 0, v2 |-> 0, ok |-> FALSE]]

Init ==
  \E n \in [Regs -> 0..MaxLen], c \in Slacks :
    /\ heap = InputHeap(n, [r \in Regs |-> c])
    /\ regs = [r \in Regs |-> NewEncoding(r, n[r])]
    /\ growth = c
    /\ last = NoCall
    /\ steps = 0

\* What the caller does with the result of a call: it keeps it in variable
\* j when the call returned normally.
Keep(j, r) == IF r.outcome = "ok" THEN [regs EXCEPT ![j] = r.e] ELSE regs

\* regs[j], err = regs[i].Truncate(maxLen, stride)
DoTruncate(i, j, maxLen, stride) ==
  /\ steps < MaxSteps
  /\ \E r \in {Truncate(heap, regs[i], maxLen, stride, growth)} :
        /\ heap' = r.h
        /\ regs' = Keep(j, r)
        /\ last' = [NoCall EXCEPT !.op = "Truncate", !.outcome = r.outcome,
                      !.recv = i, !.dest = j, !.maxLen = maxLen,
                      !.stride = stride, !.inV = View(heap, regs[i]),
                      !.outV = View(r.h, r.e),
                      !.recvAfter = View(r.h, regs[i])]
  /\ steps' = steps + 1
  /\ UNCHANGED growth

\* regs[j] = regs[i].MergeWith(pair)
DoMergeWith(i, j, pair) ==
  /\ steps < MaxSteps
  /\ \E r \in {MergeWith(heap, regs[i], pair, growth)} :
        /\ heap' = r.h
        /\ regs' = [regs EXCEPT ![j] = r.e]
        /\ last' = [NoCall EXCEPT !.op = "MergeWith", !.recv = i, !.dest = j,
                      !.inV = View(heap, regs[i]),
                      !.pairV = View(heap, pair),
                      !.outV = View(r.h, r.e),
                      !.recvAfter = View(r.h, regs[i])]
  /\ steps' = steps + 1
  /\ UNCHANGED growth

\* regs[j] = regs[i].Pad(targetLength, padId, padTypeId, padToken, direction)
DoPad(i, j, targetLength, padId, padTypeId, padToken, direction) ==
  /\ steps < MaxSteps
  /\ \E r \in {Pad(heap, regs[i], targetLength, padId, padTypeId, padToken,
                   direction, growth)} :
        /\ heap' = r.h
        /\ regs' = Keep(j, r)
        /\ last' = [NoCall EXCEPT !.op = "Pad", !.outcome = r.outcome,
                      !.recv = i, !.dest = j, !.target = targetLength,
                      !.dir = direction, !.inV = View(heap, regs[i]),
                      !.outV = View(r.h, r.e),
                      !.recvAfter = View(r.h, regs[i])]
  /\ steps' = steps + 1
  /\ UNCHANGED growth

\* The Encodings the caller can pass as pair: one of its variables or an
\* entry of the list GetOverflowing returns for one.
Pairs ==
  {regs[k] : k \in Regs}
    \cup UNION {{regs[k].Overflowing[m] : m \in 1..Len(regs[k].Overflowing)} :
                k \in Regs}

Next ==
  \/ \E i, j \in Regs, maxLen \in 0..MaxTruncLen, stride \in 0..MaxStride :
       DoTruncate(i, j, maxLen, stride)
  \/ \E i, j \in Regs, pair \in Pairs : DoMergeWith(i, j, pair)
  \/ \E i, j \in Regs, targetLength \in 0..MaxTarget, padId \in PadIds,
        padTypeId \in PadTypeIds, padToken \in PadTokens,
        direction \in {Left, Right} :
       DoPad(i, j, targetLength, padId, padTypeId, padToken, direction)

\* Any calls of Truncate, MergeWith and Pad, the result kept in any variable.
Spec == Init /\ [][Next]_vars

\* The views of a list of Encodings.
Views(h, es) == Tup([k \in 1..Len(es) |-> View(h, es[k])])

\* o := regs[i].TakeOverflowing(); regs[i] is the caller's variable, which
\* the call gets a copy of.
DoTakeOverflowing(i) ==
  /\ steps < MaxSteps
  /\ \E r \in {TakeOverflowing(regs[i])} :
        last' = [NoCall EXCEPT !.op = "TakeOverflowing", !.recv = i,
                   !.inV = View(heap, regs[i]),
                   !.taken = Views(heap, r.o),
                   !.recvAfter = View(heap, regs[i])]
  /\ steps' = steps + 1
  /\ UNCHANGED <<heap, regs, growth>>

\* A lookup on regs[i] that returned r.
Looked(op, i, arg, r, outcome) ==
  /\ steps < MaxSteps
  /\ last' = [NoCall EXCEPT !.op = op, !.outcome = outcome, !.recv = i,
                 !.arg = arg, !.inV = View(heap, regs[i]),
                 !.recvAfter = View(heap, regs[i]),
                 !.ret = [v1 |-> r.v1, v2 |-> r.v2, ok |-> r.ok]]
  /\ steps' = steps + 1
  /\ UNCHANGED <<heap, regs, growth>>

\* regs[i].Word2Tokens(word)
DoWord2Tokens(i, word, perIteration) ==
  Looked("Word2Tokens", i, word,
         Word2Tokens(heap, regs[i], word, perIteration), "ok")

\* regs[i].Token2Chars(tokenIdx)
DoToken2Chars(i, tokenIdx) ==
  Looked("Token2Chars", i, tokenIdx, Token2Chars(heap, regs[i], tokenIdx),
         Token2Chars(heap, regs[i], tokenIdx).outcome)

\* regs[i].Token2Word(tokenIdx)
DoToken2Word(i, tokenIdx) ==
  Looked("Token2Word", i, tokenIdx, Token2Word(heap, regs[i], tokenIdx), "ok")

\* regs[i].Char2Word(pos)
DoChar2Word(i, pos) ==
  Looked("Char2Word", i, pos, Char2Word(heap, regs[i], pos), "ok")

NextAccess ==
  \/ \E i \in Regs, maxLen \in 0..MaxTruncLen, stride \in 0..MaxStride :
       DoTruncate(i, i, maxLen, stride)
  \/ \E i \in Regs, pair \in Pairs : DoMergeWith(i, i, pair)
  \/ \E i \in Regs : DoTakeOverflowing(i)
  \/ \E i \in Regs, word \in 0..MaxWord, perIteration \in BOOLEAN :
       DoWord2Tokens(i, word, perIteration)
  \/ \E i \in Regs, tokenIdx \in -1..MaxLen : DoToken2Chars(i, tokenIdx)
  \/ \E i \in Regs, tokenIdx \in -1..MaxLen : DoToken2Word(i, tokenIdx)
  \/ \E i \in Regs, pos \in -1..MaxLen : DoChar2Word(i, pos)

\* Truncate and MergeWith in place, followed by the accessors.
SpecAccess == Init /\ [][NextAccess]_vars

\* ------------------------------------------------------------------ claims

Min(a, b) == IF a < b THEN a ELSE b

\* The last n elements of a sequence.
LastN(xs, n) == SubSeq(xs, Len(xs) - n + 1, Len(xs))

\* All seven arrays of a view have length n.
AllLen(v, n) == \A f \in FieldSet : Len(v[f]) = n

\* C3: Truncate(maxLen, stride) with 0 <= stride < maxLen on an Encoding
\* whose arrays all have length n > maxLen returns elements [0, maxLen) of
\* every array as primary and ceil((n - maxLen) / partSize) windows, window
\* k being the last stride elements of the one before it (of the primary
\* for the first) followed by the next partSize input elements, each window
\* with an empty overflow list.
C3_TruncateWindows ==
  (/\ last.op = "Truncate"
   /\ last.stride < last.maxLen
   /\ Len(last.inV.Ids) > last.maxLen
   /\ AllLen(last.inV, Len(last.inV.Ids)))
  => LET n == Len(last.inV.Ids)
         partSize == last.maxLen - last.stride
         count == (n - last.maxLen + partSize - 1) \div partSize
         before(k) == IF k = 1 THEN last.outV ELSE last.outV.Overflowing[k - 1]
     IN /\ last.outcome = "ok"
        /\ Len(last.outV.Overflowing) = count
        /\ \A f \in FieldSet :
             /\ last.outV[f] = SubSeq(last.inV[f], 1, last.maxLen)
             /\ \A k \in 1..count :
                  last.outV.Overflowing[k][f] =
                    LastN(before(k)[f], last.stride)
                      \o SubSeq(last.inV[f], last.maxLen + (k - 1) * partSize + 1,
                                Min(n, last.maxLen + k * partSize))
        /\ \A k \in 1..count : last.outV.Overflowing[k].Overflowing = <<>>

\* A Truncate with a stride that left several windows, the last one short.
C3_Witness ==
  /\ last.op = "Truncate"
  /\ last.outcome = "ok"
  /\ last.stride = 1
  /\ Len(last.outV.Overflowing) >= 2
  /\ Len(last.outV.Overflowing[Len(last.outV.Overflowing)].Ids) < last.maxLen
  /\ AllLen(last.inV, Len(last.inV.Ids))

\* C4: Truncate with stride >= maxLen or maxLen = 0 returns an error and
\* the Encoding it was called on holds afterwards what it held before.
C4_TruncateInvalidArgument ==
  (last.op = "Truncate" /\ (last.stride >= last.maxLen \/ last.maxLen = 0))
  => (last.outcome = "error" /\ last.recvAfter = last.inV)

\* A Truncate with stride = maxLen > 0 on an Encoding with tokens.
C4_Witness ==
  /\ last.op = "Truncate"
  /\ last.outcome = "error"
  /\ last.stride = last.maxLen
  /\ last.maxLen > 0
  /\ Len(last.inV.Ids) > last.maxLen

\* The largest End of a sequence of offsets (0 when it is empty).
RECURSIVE MaxEnd(_)
MaxEnd(offs) ==
  IF offs = <<>> THEN 0
  ELSE Max(offs[Len(offs)].End, MaxEnd(SubSeq(offs, 1, Len(offs) - 1)))

\* A sequence of offsets with start and end increased by d.
Shift(offs, d) ==
  Tup([i \in 1..Len(offs) |-> Offsets(offs[i].Start + d, offs[i].End + d)])

\* The arrays of a holding a's entries followed by b's, offsets rebased.
IsMergeOf(v, a, b) ==
  /\ v.Ids = a.Ids \o b.Ids
  /\ v.TypeIds = a.TypeIds \o b.TypeIds
  /\ v.Tokens = a.Tokens \o b.Tokens
  /\ v.SpecialTokenMask = a.SpecialTokenMask \o b.SpecialTokenMask
  /\ v.AttentionMask = a.AttentionMask \o b.AttentionMask
  /\ v.Offsets = a.Offsets \o Shift(b.Offsets, MaxEnd(a.Offsets))

\* C5: MergeWith(other) returns current's ids, typeIds, tokens,
\* specialTokenMask and attentionMask followed by other's, and current's
\* offsets followed by other's offsets increased by E, the largest end
\* among current's offsets before the merge.
C5_MergeArrays ==
  last.op = "MergeWith" => IsMergeOf(last.outV, last.inV, last.pairV)

\* The entries of a sequence.
Range(xs) == {xs[i] : i \in 1..Len(xs)}

\* C6: every entry of the overflowing list MergeWith returns is a merged
\* Encoding: the list holds the merge of every window c of current with
\* other and with every window o of other, and of current with every o.
C6_MergeOverflowMerged ==
  last.op = "MergeWith"
  => /\ \A c \in Range(last.inV.Overflowing) :
          /\ \E x \in Range(last.outV.Overflowing) : IsMergeOf(x, c, last.pairV)
          /\ \A o \in Range(last.pairV.Overflowing) :
               \E x \in Range(last.outV.Overflowing) : IsMergeOf(x, c, o)
     /\ \A o \in Range(last.pairV.Overflowing) :
          \E x \in Range(last.outV.Overflowing) : IsMergeOf(x, last.inV, o)

\* C7: the overflowing list MergeWith returns has
\* len(current.overflowing) * len(other.overflowing)
\* + len(current.overflowing) + len(other.overflowing) entries when both
\* lists are non-empty, and none when both are empty.
C7_MergeOverflowSize ==
  last.op = "MergeWith"
  => LET c == Len(last.inV.Overflowing)
         o == Len(last.pairV.Overflowing)
     IN /\ (c > 0 /\ o > 0) => Len(last.outV.Overflowing) = c * o + c + o
        /\ (c = 0 /\ o = 0) => Len(last.outV.Overflowing) = 0

\* A MergeWith of two Encodings that both have several overflow windows.
C7_Witness ==
  /\ last.op = "MergeWith"
  /\ Len(last.inV.Overflowing) > 1
  /\ Len(last.pairV.Overflowing) > 1
  /\ Len(last.outV.Overflowing) > 0

\* The number of distinct word indexes in a sequence.
DistinctWords(ws) == Cardinality(Range(ws))

\* C8: MergeWith adds to each word index of other the number of distinct
\* word indexes of current.
C8_MergeWordsRebased ==
  last.op = "MergeWith"
  => last.outV.Words =
       last.inV.Words
         \o Tup([i \in 1..Len(last.pairV.Words) |->
                   last.pairV.Words[i] + DistinctWords(last.inV.Words)])

\* C9: Pad on an Encoding whose length is already >= targetLength returns
\* an Encoding with the arrays of the input.
C9_PadNoOp ==
  (last.op = "Pad" /\ Len(last.inV.Ids) >= last.target)
  => /\ last.outcome = "ok"
     /\ \A f \in FieldSet : last.outV[f] = last.inV[f]

\* The filler Pad uses for the model's pad arguments.
PadFill(f) ==
  Filler(f, Only(PadIds), Only(PadTypeIds), Only(PadTokens))

\* C10: Pad on an Encoding shorter than targetLength completes and returns
\* ids, typeIds, tokens, specialTokenMask, attentionMask and offsets of
\* length targetLength: the original entries with the filler before them
\* (Left) or after them (Right).
C10_PadFills ==
  (last.op = "Pad" /\ Len(last.inV.Ids) < last.target)
  => /\ last.outcome = "ok"
     /\ \A f \in FieldSet \ {"Words"} :
          last.outV[f] =
            IF last.dir = Left
            THEN Rep(last.target - Len(last.inV[f]), PadFill(f)) \o last.inV[f]
            ELSE last.inV[f] \o Rep(last.target - Len(last.inV[f]), PadFill(f))

\* The arrays of an Encoding and of its overflow entries, all levels, have
\* one length each.
RECURSIVE EqualLengths(_)
EqualLengths(e) ==
  /\ \A f \in FieldSet : e[f].len = e.Ids.len
  /\ \A k \in 1..Len(e.Overflowing) : EqualLengths(e.Overflowing[k])

\* C1: after any successful Truncate, MergeWith and Pad calls all arrays of
\* the Encoding and of every overflow entry have equal length.
C1_LengthInvariant == \A r \in Regs : EqualLengths(regs[r])

\* The arrays of a view padded to length n at the side dir.
IsPadOf(v, a, n, dir) ==
  \A f \in FieldSet \ {"Words"} :
    v[f] = IF dir = Left
           THEN Rep(n - Len(a[f]), PadFill(f)) \o a[f]
           ELSE a[f] \o Rep(n - Len(a[f]), PadFill(f))

\* C11: Pad pads every entry of the overflowing list: the Encoding it
\* returns has as many overflow entries as the input, in the same order,
\* and every entry that was shorter than targetLength has length
\* targetLength, its own entries plus filler.
C11_PadOverflowing ==
  (last.op = "Pad" /\ last.outcome = "ok")
  => /\ Len(last.outV.Overflowing) = Len(last.inV.Overflowing)
     /\ \A k \in 1..Len(last.inV.Overflowing) :
          Len(last.inV.Overflowing[k].Ids) < last.target
          => IsPadOf(last.outV.Overflowing[k], last.inV.Overflowing[k],
                     last.target, last.dir)

\* C12: TakeOverflowing returns the overflow list in its order, and the
\* Encoding it was called on has afterwards an empty overflow list and
\* its arrays as before.
C12_TakeOverflowing ==
  last.op = "TakeOverflowing"
  => /\ last.taken = last.inV.Overflowing
     /\ last.recvAfter = [last.inV EXCEPT !.Overflowing = <<>>]

\* The token positions (from 0) of a view that carry word index w.
TokensOf(v, w) == {i \in 0..(Len(v.Words) - 1) : v.Words[i + 1] = w}

\* The smallest and the largest element of a non-empty set of numbers.
SetMin(S) == CHOOSE x \in S : \A y \in S : x <= y
SetMax(S) == CHOOSE x \in S : \A y \in S : x >= y

\* C13: Word2Tokens(word) returns the smallest token position carrying
\* the word index and one more than the largest, and reports not found
\* when no token carries it.
C13_Word2Tokens ==
  last.op = "Word2Tokens"
  => IF TokensOf(last.inV, last.arg) # {}
     THEN /\ last.ret.ok
          /\ last.ret.v1 = SetMin(TokensOf(last.inV, last.arg))
          /\ last.ret.v2 = SetMax(TokensOf(last.inV, last.arg)) + 1
     ELSE ~last.ret.ok

\* C14: Token2Chars(tokenIdx) returns offsets[tokenIdx] for tokenIdx in
\* [0, len) and not found, without a runtime failure, for any other.
C14_Token2Chars ==
  last.op = "Token2Chars"
  => /\ last.outcome = "ok"
     /\ IF last.arg >= 0 /\ last.arg < Len(last.inV.Offsets)
        THEN /\ last.ret.ok
             /\ Offsets(last.ret.v1, last.ret.v2) = last.inV.Offsets[last.arg + 1]
        ELSE ~last.ret.ok

\* The token positions (from 0) of a view whose span contains pos.
TokensAt(v, pos) ==
  {i \in 0..(Len(v.Offsets) - 1) :
     pos >= v.Offsets[i + 1].Start /\ pos < v.Offsets[i + 1].End}

\* The word index a view keeps for token position t, if it keeps one.
WordAt(v, t, ret) ==
  IF t >= 0 /\ t < Len(v.Words) /\ t < Len(v.Ids)
  THEN ret.ok /\ ret.v1 = v.Words[t + 1]
  ELSE ~ret.ok

\* C15: Token2Word(tokenIdx) returns words[tokenIdx] when words are kept
\* and tokenIdx is a token position, not found otherwise; Char2Word(pos)
\* returns the word index of the first token whose span contains pos.
C15_Token2Word ==
  /\ last.op = "Token2Word" => WordAt(last.inV, last.arg, last.ret)
  /\ last.op = "Char2Word"
     => IF TokensAt(last.inV, last.arg) # {}
        THEN WordAt(last.inV, SetMin(TokensAt(last.inV, last.arg)), last.ret)
        ELSE ~last.ret.ok

\* C2: Truncate, MergeWith and Pad leave no two Encodings sharing storage:
\* a call never changes what an Encoding it was not assigned to holds.
C2_NoSharedStorage ==
  [][\A r \in Regs :
       regs'[r] = regs[r] => View(heap', regs'[r]) = View(heap, regs[r])]_vars

=============================================================================
